---- MODULE Spec2Model ----
(***************************************************************************)
(* A model of readability-cli (src/index.js): one run of the command, from *)
(* the parsed command line (the value yargs' .parse() returns) to the exit *)
(* of the process.                                                         *)
(*                                                                         *)
(* JavaScript strings are sequences of one-character strings, so that the  *)
(* regular expressions and replacements of the code are computed and not   *)
(* assumed.  The empty sequence stands for a string option that is absent  *)
(* or empty: the code tests these options for truthiness only.             *)
(***************************************************************************)
EXTENDS Integers, Sequences, FiniteSets, TLC

VARIABLES
    pc,               \* "start" | "loading" | "exited"
    args,             \* the yargs result, as the script rewrites it
    env,              \* process.env, the proxy variables
    isTTY,            \* process.stdin.isTTY
    exitCode,         \* process.exitCode (0 while undefined)
    errored,          \* let errored
    uncaught,         \* an exception or rejection no handler classified
    stderr,           \* the diagnostic stream, one entry per message
    stdout,           \* chunks written to process.stdout
    fileOpened,       \* fs.createWriteStream(outputArg) was called
    fileData,         \* chunks written to the --output file
    input,            \* inputURL, inputFile, inputIsFromStdin
    documentURL,      \* const documentURL
    proxy,            \* const proxy
    wantedProperties, \* let wantedProperties
    loadCall,         \* the jsdom entry point the run called, and its options
    dom,              \* the loaded document
    loadError,        \* the rejection of the load, if it failed
    parseCalls        \* how many times Readability.parse ran

vars == <<pc, args, env, isTTY, exitCode, errored, uncaught, stderr, stdout,
          fileOpened, fileData, input, documentURL, proxy, wantedProperties,
          loadCall, dom, loadError, parseCalls>>

(***************************************************************************)
(* Bounds of the model.                                                    *)
(***************************************************************************)
\* Longest --properties list the runs are given.
MaxProps == 2

(***************************************************************************)
(* Program constants.                                                      *)
(***************************************************************************)
ExitCodes ==
    [badUsageCLI |-> 64, dataError |-> 65, noInput |-> 66, noHost |-> 68,
     noPermission |-> 77]

LowConfidenceMode == [keep |-> "keep", force |-> "force", exit |-> "exit"]

LowConfidenceModes ==
    {LowConfidenceMode.keep, LowConfidenceMode.force, LowConfidenceMode.exit}

\* The keys of the Properties map, in insertion order.
PropertyNames ==
    <<"html-title", "title", "excerpt", "byline", "length", "dir",
      "text-content", "html-content">>

(***************************************************************************)
(* Strings.                                                                *)
(***************************************************************************)
WordChars ==
    {"a", "b", "c", "f", "h", "p", "s", "t", "u", "x", "T", "B", "4", "2", "_"}

HttpsPrefix == <<"h", "t", "t", "p", "s", ":", "/", "/">>

RECURSIVE WordRun(_)
\* The length of the longest prefix of s made of \w characters.
WordRun(s) ==
    IF s # <<>> /\ Head(s) \in WordChars THEN 1 + WordRun(Tail(s)) ELSE 0

\* s.search(/^\w+:\/\//) != -1.  \w+ is greedy and ':' is no \w character, so
\* the match, if any, takes the whole leading run of \w characters.
HasScheme(s) ==
    LET n == WordRun(s)
    IN  /\ n >= 1
        /\ Len(s) >= n + 3
        /\ s[n + 1] = ":" /\ s[n + 2] = "/" /\ s[n + 3] = "/"

RECURSIVE ReplaceNewlines(_)
\* s.replace(/\n+/gm, ' '): every maximal run of newlines becomes one space.
ReplaceNewlines(s) ==
    IF s = <<>> THEN <<>>
    ELSE IF Head(s) = "\n"
         THEN IF Len(s) >= 2 /\ s[2] = "\n"
              THEN ReplaceNewlines(Tail(s))
              ELSE <<" ">> \o ReplaceNewlines(Tail(s))
         ELSE <<Head(s)>> \o ReplaceNewlines(Tail(s))

RECURSIVE EscapeChars(_)
\* The innerHTML of a <p> holding one text node: &, < and > become entities.
EscapeChars(s) ==
    IF s = <<>> THEN <<>>
    ELSE (CASE Head(s) = "&" -> <<"&", "a", "m", "p", ";">>
            [] Head(s) = "<" -> <<"&", "l", "t", ";">>
            [] Head(s) = ">" -> <<"&", "g", "t", ";">>
            [] OTHER -> <<Head(s)>>) \o EscapeChars(Tail(s))

(***************************************************************************)
(* JavaScript values of the article's properties: a string, a number, an   *)
(* HTML text (named by what it is the markup of), null or undefined.       *)
(***************************************************************************)
JSNull == [tag |-> "null", chars |-> <<>>]

JSUndefined == [tag |-> "undefined", chars |-> <<>>]

JSString(s) == [tag |-> "string", chars |-> s]

JSNumber(s) == [tag |-> "number", chars |-> s]

JSHtml(what) == [tag |-> "html", chars |-> <<what>>]

Truthy(v) ==
    CASE v.tag \in {"null", "undefined"} -> FALSE
      [] v.tag = "string" -> v.chars # <<>>
      [] v.tag = "number" -> v.chars # <<"0">>
      [] OTHER -> TRUE

\* DOMPurify.sanitize: the markup with the unsafe parts removed.
Sanitize(v) == [tag |-> "sanitized-html", chars |-> v.chars]

\* escapeHTML(string, document).  A text node of null holds the text "null".
EscapeHTML(v) ==
    CASE v.tag = "null" -> JSString(<<"n", "u", "l", "l">>)
      [] v.tag = "undefined" -> JSString(<<"u", "n", "d", "e", "f", "i", "n", "e", "d">>)
      [] OTHER -> JSString(EscapeChars(v.chars))

(***************************************************************************)
(* The Properties map: name -> (article, singleLine, window) => value.     *)
(* PropertyThrows says when the function throws a TypeError instead: the   *)
(* call of .replace on a value that is null or undefined.                  *)
(***************************************************************************)
SingleLineNames == {"title", "excerpt", "byline"}

ArticleField(article, name) ==
    CASE name = "title" -> article.title
      [] name = "excerpt" -> article.excerpt
      [] name = "byline" -> article.byline
      [] name = "length" -> article.length
      [] name = "dir" -> article.dir
      [] name = "text-content" -> article.textContent
      [] OTHER -> article.content

PropertyThrows(name, article, singleLine) ==
    LET field == IF name = "html-title" THEN "title" ELSE name
    IN  /\ singleLine
        /\ field \in SingleLineNames
        /\ ArticleField(article, field).tag \in {"null", "undefined"}

StringProperty(article, name, singleLine) ==
    LET v == ArticleField(article, name)
    IN  IF singleLine THEN JSString(ReplaceNewlines(v.chars)) ELSE v

HtmlContent(a, article) ==
    IF ~a.insane THEN Sanitize(article.content) ELSE article.content

Property(name, a, article, singleLine) ==
    CASE name = "html-title" ->
            JSString(<<"<", "h", "1", ">">>
                     \o EscapeHTML(StringProperty(article, "title", singleLine)).chars
                     \o <<"<", "/", "h", "1", ">">>)
      [] name \in SingleLineNames -> StringProperty(article, name, singleLine)
      [] name = "html-content" -> HtmlContent(a, article)
      [] OTHER -> ArticleField(article, name)

(***************************************************************************)
(* Chunks: what one writeStream.write, console.log or JSON.stringify call  *)
(* puts on a stream.                                                       *)
(***************************************************************************)
Chunk(kind, v) == [kind |-> kind, v |-> v, fields |-> <<>>]

Literal == [tag |-> "literal", chars |-> <<>>]

\* value + '\n': the value converted to a string.
LineChunk(name, v) ==
    [kind |-> "line", v |-> v, fields |-> <<name>>]

RECURSIVE JSONFields(_, _, _)
\* result[name] = value for each name in turn; JSON.stringify leaves out the
\* keys whose value is undefined, and a key assigned twice is kept once, at its
\* first place, with its last value (all values of one name are equal here).
JSONFields(names, a, article) ==
    IF names = <<>> THEN <<>>
    ELSE LET rest == JSONFields(Tail(names), a, article)
             v == Property(Head(names), a, article, FALSE)
         IN  IF v.tag = "undefined"
             THEN rest
             ELSE <<[name |-> Head(names), v |-> v]>>
                  \o SelectSeq(rest, LAMBDA f : f.name # Head(names))

JSONChunk(names, a, article) ==
    [kind |-> "json", v |-> Literal, fields |-> JSONFields(names, a, article)]

RECURSIVE LineWrites(_, _, _)
\* for (propertyName of wantedProperties) writeStream.write(... + '\n'): the
\* chunks written, up to the first property whose function throws.
LineWrites(names, a, article) ==
    IF names = <<>> THEN [chunks |-> <<>>, thrown |-> FALSE]
    ELSE IF PropertyThrows(Head(names), article, TRUE)
         THEN [chunks |-> <<>>, thrown |-> TRUE]
         ELSE LET rest == LineWrites(Tail(names), a, article)
              IN  [chunks |-> <<LineChunk(Head(names),
                                          Property(Head(names), a, article, TRUE))>>
                                \o rest.chunks,
                   thrown |-> rest.thrown]

\* The full document for Firefox's Reader Mode stylesheet (no --style).
DefaultStyleWrites(a, article) ==
    LET contentDir == Property("dir", a, article, FALSE)
        author == Property("byline", a, article, FALSE)
        title == EscapeHTML(Property("title", a, article, FALSE))
    IN  <<Chunk("head", title), Chunk("body-open", Literal)>>
        \o (IF Truthy(contentDir)
            THEN <<Chunk("dir-attr", contentDir)>>
            ELSE <<Chunk("no-dir-attr", Literal)>>)
        \o <<Chunk("reader-title", title)>>
        \o (IF Truthy(author)
            THEN <<Chunk("credits", EscapeHTML(author))>>
            ELSE <<>>)
        \o <<Chunk("content-open", Literal),
             Chunk("content", Property("html-content", a, article, FALSE)),
             Chunk("content-close", Literal),
             Chunk("document-end", Literal)>>

\* The simpler document that links the --style stylesheet.
CustomStyleWrites(a, article) ==
    LET author == Property("byline", a, article, FALSE)
        title == EscapeHTML(Property("title", a, article, FALSE))
    IN  <<Chunk("head", title),
          Chunk("html-title", Property("html-title", a, article, FALSE)),
          Chunk("newline", Literal)>>
        \o (IF Truthy(author)
            THEN <<Chunk("byline-paragraph", EscapeHTML(author))>>
            ELSE <<>>)
        \o <<Chunk("rule", Literal),
             Chunk("content", Property("html-content", a, article, FALSE)),
             Chunk("body-tag", Literal),
             Chunk("document-end", Literal)>>

\* Lines 482-564 of onLoadDOM: the writes for an article that was found.
ArticleWrites(a, wanted, article) ==
    IF a.json
    THEN [chunks |-> <<JSONChunk(IF wanted.given THEN wanted.names
                                 ELSE PropertyNames, a, article)>>,
          thrown |-> FALSE]
    ELSE IF wanted.given
         THEN LineWrites(wanted.names, a, article)
         ELSE [chunks |-> IF a.style = <<>>
                          THEN DefaultStyleWrites(a, article)
                          ELSE CustomStyleWrites(a, article),
               thrown |-> FALSE]

\* getHTML(window): the outer HTML of the document as it is when read.
GetHTML(a, d) ==
    LET html == JSHtml(d.state)
    IN  Chunk("outerHTML", IF ~a.insane THEN Sanitize(html) ELSE html)

(***************************************************************************)
(* The top-level script, lines 282-413: from the parsed arguments to the   *)
(* call that starts loading the document.                                  *)
(***************************************************************************)
Dash == <<"-">>

NoInput == [inputURL |-> <<>>, inputFile |-> <<>>, inputIsFromStdin |-> FALSE]

NoResources == [given |-> FALSE, proxy |-> <<>>, strictSSL |-> TRUE, userAgent |-> <<>>]

NoCall == [api |-> "none", target |-> <<>>, url |-> <<>>, resources |-> NoResources]

NoProperties == [given |-> FALSE, names |-> <<>>]

\* Lines 289: the mode is none of keep, force, exit (nor absent, nor no-op).
UnknownMode(a) ==
    /\ a.lowConfidence # ""
    /\ a.lowConfidence # "no-op"
    /\ a.lowConfidence \notin LowConfidenceModes

\* Lines 282-302: the notes for deprecated options, in the order printed.
DeprecationNotes(a) ==
    (IF a.lowConfidence = "no-op"
     THEN <<"Note: no-op option is deprecated, please use 'keep' instead.">>
     ELSE <<>>)
    \o (IF a.isUrl THEN <<"Note: --is-url option is deprecated.">> ELSE <<>>)
    \o (IF a.url # <<>>
        THEN <<"Note: --url option is deprecated, please use --base instead.">>
        ELSE <<>>)

\* Lines 282-302: the arguments as the script rewrites them.
RewrittenArgs(a) ==
    [a EXCEPT !.lowConfidence = IF a.lowConfidence \in {"", "no-op"}
                                THEN LowConfidenceMode.keep
                                ELSE a.lowConfidence,
              !.base = IF a.url # <<>> THEN a.url ELSE a.base]

\* Lines 324-336, where the script goes on: the token, '-' when there is none.
InputArg(a) == IF a.source = <<>> THEN Dash ELSE a.source

\* Lines 343-344.
SchemedArg(a, inputArg) ==
    IF a.isUrl /\ ~HasScheme(inputArg) THEN HttpsPrefix \o inputArg ELSE inputArg

\* Lines 345-350.
Classify(a, inputArg) ==
    IF ~a.isFile /\ HasScheme(inputArg)
    THEN [NoInput EXCEPT !.inputURL = inputArg]
    ELSE IF inputArg = Dash
         THEN [NoInput EXCEPT !.inputIsFromStdin = TRUE]
         ELSE [NoInput EXCEPT !.inputFile = inputArg]

\* The --base option left out.
MutDocumentURL(a, inp) == inp.inputURL

\* Line 354: args["base"] || inputURL.
DocumentURL(a, inp) == IF a.base # <<>> THEN a.base ELSE inp.inputURL

\* The upper-case HTTP_PROXY read where the code reads http_proxy.
MutProxy(a, e) ==
    IF a.proxy # <<>> THEN a.proxy
    ELSE IF e.https_proxy # <<>> THEN e.https_proxy
    ELSE IF e.HTTPS_PROXY # <<>> THEN e.HTTPS_PROXY
    ELSE e.HTTP_PROXY

\* Line 357.
Proxy(a, e) ==
    IF a.proxy # <<>> THEN a.proxy
    ELSE IF e.https_proxy # <<>> THEN e.https_proxy
    ELSE IF e.HTTPS_PROXY # <<>> THEN e.HTTPS_PROXY
    ELSE e.http_proxy

\* Lines 360-363.
WantedProperties(a) == a.properties

RelativeLinkWarning ==
    "Warning: piping input with unknown URL. This means that relative links will be broken. Supply the --base parameter to fix."

\* The warning printed for a local file too.
MutLoadNotes(a, inp, docURL) ==
    IF ~a.quiet
    THEN <<IF inp.inputIsFromStdin THEN "Reading..." ELSE "Retrieving...">>
         \o (IF docURL = <<>> /\ inp.inputURL = <<>>
             THEN <<RelativeLinkWarning>> ELSE <<>>)
    ELSE <<>>

\* Lines 381-386 and 392-393: what is printed before the load starts.
LoadNotes(a, inp, docURL) ==
    IF inp.inputIsFromStdin
    THEN IF ~a.quiet
         THEN <<"Reading...">>
              \o (IF docURL = <<>> THEN <<RelativeLinkWarning>> ELSE <<>>)
         ELSE <<>>
    ELSE IF ~a.quiet THEN <<"Retrieving...">> ELSE <<>>

\* Lines 387-410: the jsdom call and the options the script passes to it.
LoadCall(a, inp, docURL, prx) ==
    IF inp.inputIsFromStdin
    THEN [api |-> "new JSDOM", target |-> Dash, url |-> docURL,
          resources |-> NoResources]
    ELSE IF inp.inputURL # <<>>
         THEN [api |-> "fromURL", target |-> inp.inputURL, url |-> <<>>,
               resources |-> [given |-> TRUE, proxy |-> prx,
                              strictSSL |-> ~a.insecure,
                              userAgent |-> a.userAgent]]
         ELSE [api |-> "fromFile", target |-> inp.inputFile, url |-> docURL,
               resources |-> NoResources]

\* What Main leaves when the run ends in it.
MainExit(a, code, err, out) ==
    [pc |-> "exited", args |-> a, exitCode |-> code, errored |-> code # 0,
     stderr |-> err, stdout |-> out, input |-> NoInput, documentURL |-> <<>>,
     proxy |-> <<>>, wanted |-> NoProperties, loadCall |-> NoCall]

MainResult(a0, e, tty, wasErrored) ==
    IF UnknownMode(a0)
    THEN MainExit(a0, ExitCodes.badUsageCLI,
                  <<"Unknown mode", "Use --help for more info.">>, <<>>)
    ELSE
    LET a == RewrittenArgs(a0)
        notes == DeprecationNotes(a0)
    IN  IF a.completion
        THEN MainExit(a, 0, notes, <<Chunk("completion-script", Literal)>>)
        ELSE IF a.version
        THEN MainExit(a, 0, notes, <<Chunk("version", Literal),
                                     Chunk("node-version", Literal)>>)
        ELSE IF a.source = <<>> /\ tty
        THEN MainExit(a, ExitCodes.badUsageCLI,
                      notes \o <<"No input provided", "usage">>, <<>>)
        ELSE
        LET inp == Classify(a, SchemedArg(a, InputArg(a)))
            docURL == DocumentURL(a, inp)
            prx == Proxy(a, e)
        IN  IF wasErrored
            THEN [MainExit(a, 0, notes \o <<"usage">>, <<>>)
                    EXCEPT !.input = inp, !.documentURL = docURL,
                           !.proxy = prx, !.wanted = WantedProperties(a),
                           !.errored = TRUE]
            ELSE [pc |-> "loading", args |-> a, exitCode |-> 0,
                  errored |-> FALSE,
                  stderr |-> notes \o LoadNotes(a, inp, docURL),
                  stdout |-> <<>>, input |-> inp, documentURL |-> docURL,
                  proxy |-> prx, wanted |-> WantedProperties(a),
                  loadCall |-> LoadCall(a, inp, docURL, prx)]

Main ==
    /\ pc = "start"
    /\ LET r == MainResult(args, env, isTTY, errored)
       IN  /\ pc' = r.pc
           /\ args' = r.args
           /\ exitCode' = r.exitCode
           /\ errored' = r.errored
           /\ stderr' = stderr \o r.stderr
           /\ stdout' = stdout \o r.stdout
           /\ input' = r.input
           /\ documentURL' = r.documentURL
           /\ proxy' = r.proxy
           /\ wantedProperties' = r.wanted
           /\ loadCall' = r.loadCall
    /\ UNCHANGED <<env, isTTY, uncaught, fileOpened, fileData, dom, loadError,
                   parseCalls>>

(***************************************************************************)
(* The documents a load can yield.  What isProbablyReaderable answers and  *)
(* what Readability.parse returns are the library's business: both are     *)
(* inputs here.  parse works on the document itself, and whether that      *)
(* changes its outer HTML is an input too.                                 *)
(***************************************************************************)
Bylines == {JSNull, JSUndefined, JSString(<<"B", "\n", "\n", "b">>)}

Dirs == {JSNull, JSString(<<"l", "t", "r">>)}

NoArticle ==
    [found |-> FALSE, title |-> JSNull, excerpt |-> JSNull, byline |-> JSNull,
     length |-> JSNull, dir |-> JSNull, textContent |-> JSNull,
     content |-> JSNull]

Articles ==
    {[found |-> TRUE, title |-> JSString(<<"T", "\n", "<", "b", ">">>),
      excerpt |-> JSString(<<"x", "\n", "\n", "x">>), byline |-> b,
      length |-> JSNumber(<<"4", "2">>), dir |-> dr,
      textContent |-> JSString(<<"t", "\n", "x">>),
      content |-> JSHtml("article")] : b \in Bylines, dr \in Dirs}

NoDom ==
    [loaded |-> FALSE, base |-> <<>>, readerable |-> FALSE,
     article |-> NoArticle, parseMutates |-> FALSE, state |-> "none"]

\* The URL jsdom gives the document: the one fetched for fromURL, else the url
\* option of the call (none: jsdom's default).
DocumentBase(call) == IF call.api = "fromURL" THEN call.target ELSE call.url

Documents(call) ==
    {[loaded |-> TRUE, base |-> DocumentBase(call), readerable |-> r,
      article |-> art, parseMutates |-> m, state |-> "document"] :
        r \in BOOLEAN, art \in Articles, m \in {TRUE}}
    \cup
    {[loaded |-> TRUE, base |-> DocumentBase(call), readerable |-> r,
      article |-> NoArticle, parseMutates |-> m, state |-> "document"] :
        r \in BOOLEAN, m \in BOOLEAN}

\* reader.parse(): the document afterwards.
AfterParse(d) ==
    [d EXCEPT !.state = IF d.parseMutates THEN "document after parse"
                        ELSE d.state]

(***************************************************************************)
(* onLoadDOM, lines 427-565.                                               *)
(***************************************************************************)
\* Lines 430-432.
ShouldParseArticle(a, d) ==
    IF a.lowConfidence # LowConfidenceMode.force THEN d.readerable ELSE TRUE

\* The exit policy mistaken for another mode.
MutExitsWhenUnsure(a) == a.lowConfidence = LowConfidenceMode.force

\* Line 435.
ExitsWhenUnsure(a) == a.lowConfidence = LowConfidenceMode.exit

\* The --properties list forgotten in the test.
MutPropertiesRequested(a, wanted) == a.json

\* Line 442.
PropertiesRequested(a, wanted) == a.json \/ wanted.given

\* Every mode but exit falling back to the passthrough.
MutKeepsWhenNoArticle(a) == a.lowConfidence # LowConfidenceMode.exit

\* Line 472.
KeepsWhenNoArticle(a) == a.lowConfidence = LowConfidenceMode.keep

\* Lines 451-457: a file stream is created only for --output.
OpensFile(a) == a.output # <<>>

Unless(quiet, msg) == IF ~quiet THEN <<msg>> ELSE <<>>

OnLoadDOMResult(a, wanted, d) ==
    LET stop == [stderr |-> <<>>, opens |-> FALSE, chunks |-> <<>>,
                 code |-> 0, parses |-> FALSE, thrown |-> FALSE, d |-> d]
    IN
    IF ~ShouldParseArticle(a, d) /\ ExitsWhenUnsure(a)
    THEN [stop EXCEPT
            !.stderr = <<"Not sure if this document should be processed, exiting">>,
            !.code = ExitCodes.dataError]
    ELSE IF ~ShouldParseArticle(a, d) /\ PropertiesRequested(a, wanted)
    THEN [stop EXCEPT
            !.stderr = Unless(a.quiet,
                              "Not sure if this document should be processed. Not processing")
                       \o <<"Can't output properties">>,
            !.code = ExitCodes.dataError]
    ELSE IF ~ShouldParseArticle(a, d)
    THEN [stop EXCEPT
            !.stderr = Unless(a.quiet,
                              "Not sure if this document should be processed. Not processing"),
            !.opens = OpensFile(a),
            !.chunks = <<GetHTML(a, d)>>]
    ELSE IF ~d.article.found
    THEN IF KeepsWhenNoArticle(a)
         THEN [stop EXCEPT
                 !.stderr = Unless(a.quiet, "Processing...")
                            \o Unless(a.quiet, "Couldn't process document."),
                 !.opens = OpensFile(a),
                 !.parses = TRUE,
                 !.d = AfterParse(d),
                 !.chunks = <<GetHTML(a, AfterParse(d))>>]
         ELSE [stop EXCEPT
                 !.stderr = Unless(a.quiet, "Processing...")
                            \o <<"Couldn't process document.">>,
                 !.opens = OpensFile(a),
                 !.parses = TRUE,
                 !.d = AfterParse(d),
                 !.code = ExitCodes.dataError]
    ELSE LET w == ArticleWrites(a, wanted, d.article)
         IN  [stop EXCEPT
                 !.stderr = Unless(a.quiet, "Processing..."),
                 !.opens = OpensFile(a),
                 !.parses = TRUE,
                 !.d = AfterParse(d),
                 !.chunks = w.chunks,
                 !.thrown = w.thrown]

UncaughtMessage == "uncaught exception"

\* The exit code after an exception nothing catches: Node ends the process with
\* code 1, or (an unhandled rejection, older Node) warns and lets it end with
\* the code set so far.
UncaughtCodes(code) == {1, code}

\* promiseGetHTML.then(onLoadDOM, ...) and read(process.stdin).then(...): the
\* load ends well and onLoadDOM runs on the document.
OnLoadDOM ==
    /\ pc = "loading"
    /\ \E d \in Documents(loadCall) :
         LET r == OnLoadDOMResult(args, wantedProperties, d)
         IN  /\ dom' = r.d
             /\ parseCalls' = parseCalls + (IF r.parses THEN 1 ELSE 0)
             /\ fileOpened' = (fileOpened \/ r.opens)
             /\ IF OpensFile(args)
                THEN fileData' = fileData \o r.chunks /\ stdout' = stdout
                ELSE stdout' = stdout \o r.chunks /\ fileData' = fileData
             /\ errored' = (errored \/ r.code # 0)
             /\ uncaught' = r.thrown
             /\ stderr' = stderr \o r.stderr
                          \o (IF r.thrown THEN <<UncaughtMessage>> ELSE <<>>)
             /\ \E c \in (IF r.thrown THEN UncaughtCodes(exitCode) ELSE {r.code}) :
                    exitCode' = c
    /\ pc' = "exited"
    /\ UNCHANGED <<args, env, isTTY, input, documentURL, proxy,
                   wantedProperties, loadCall, loadError>>

(***************************************************************************)
(* onLoadDOMError, lines 567-589.                                          *)
(***************************************************************************)
LoadError(isTypeError, code, innerCode, statusCode) ==
    [isTypeError |-> isTypeError, code |-> code, innerCode |-> innerCode,
     statusCode |-> statusCode]

NoError == LoadError(FALSE, "none", "", 0)

InvalidURLError == LoadError(TRUE, "", "", 0)

\* What fails on the standard input path: the read of the stream, or new JSDOM
\* on a url option that is no URL.
StdinErrors(docURL) ==
    {LoadError(FALSE, "EISDIR", "", 0)}
    \cup (IF docURL # <<>> THEN {InvalidURLError} ELSE {})

\* The rejections of JSDOM.fromURL and JSDOM.fromFile.
LoadErrors(inp, docURL) ==
    IF inp.inputURL # <<>>
    THEN {InvalidURLError, LoadError(FALSE, "", "ENOTFOUND", 0),
          LoadError(FALSE, "", "", 404), LoadError(FALSE, "", "ECONNREFUSED", 0)}
    ELSE {LoadError(FALSE, "ENOENT", "", 0), LoadError(FALSE, "EACCES", "", 0),
          LoadError(FALSE, "EISDIR", "", 0)}
         \cup (IF docURL # <<>> THEN {InvalidURLError} ELSE {})

ErrorExitCode(error, inp) ==
    IF error.isTypeError /\ inp.inputURL # <<>> THEN ExitCodes.dataError
    ELSE IF error.code = "ENOENT" THEN ExitCodes.noInput
    ELSE IF error.code = "EACCES" THEN ExitCodes.noPermission
    ELSE IF error.innerCode = "ENOTFOUND" THEN ExitCodes.noHost
    ELSE IF error.statusCode # 0 THEN ExitCodes.noHost
    ELSE ExitCodes.dataError

ErrorMessage(error, inp) ==
    IF error.isTypeError /\ inp.inputURL # <<>> THEN "Invalid URL"
    ELSE IF error.code = "ENOENT" THEN "error.message"
    ELSE IF error.code = "EACCES" THEN "error.message"
    ELSE IF error.innerCode = "ENOTFOUND" THEN "Host not found"
    ELSE IF error.statusCode # 0 THEN "Status error"
    ELSE "error.message"

OnLoadDOMError ==
    /\ pc = "loading"
    /\ ~input.inputIsFromStdin
    /\ \E error \in LoadErrors(input, documentURL) :
         /\ stderr' = Append(stderr, ErrorMessage(error, input))
         /\ exitCode' = ErrorExitCode(error, input)
         /\ loadError' = error
    /\ errored' = TRUE
    /\ pc' = "exited"
    /\ UNCHANGED <<args, env, isTTY, uncaught, stdout, fileOpened, fileData,
                   input, documentURL, proxy, wantedProperties, loadCall, dom,
                   parseCalls>>

\* Lines 387-390: read(process.stdin) rejects, or new JSDOM throws on the url
\* option; the promise has no rejection handler.
StdinLoadFails ==
    /\ pc = "loading"
    /\ input.inputIsFromStdin
    /\ uncaught' = TRUE
    /\ stderr' = Append(stderr, UncaughtMessage)
    /\ \E c \in UncaughtCodes(exitCode) : exitCode' = c
    /\ \E error \in StdinErrors(documentURL) : loadError' = error
    /\ pc' = "exited"
    /\ UNCHANGED <<args, env, isTTY, errored, stdout, fileOpened, fileData,
                   input, documentURL, proxy, wantedProperties, loadCall, dom,
                   parseCalls>>

(***************************************************************************)
(* The runs.  The command line is drawn from three families, each varying  *)
(* the options one part of the program reads and leaving the others at     *)
(* their defaults.                                                         *)
(***************************************************************************)
FileToken == <<"a", ".", "h">>

URLToken == <<"h", ":", "/", "/", "x">>

BareSchemeToken == <<":", "/", "/", "x">>

BaseValue == <<"b", ":", "/", "/", "b">>

URLOptionValue == <<"u", ":", "/", "/", "u">>

NoEnv == [https_proxy |-> <<>>, HTTPS_PROXY |-> <<>>, http_proxy |-> <<>>,
          HTTP_PROXY |-> <<>>]

DefaultArgs ==
    [source |-> <<>>, base |-> <<>>, insane |-> FALSE, insecure |-> FALSE,
     isFile |-> FALSE, isUrl |-> FALSE, json |-> FALSE, lowConfidence |-> "",
     output |-> <<>>, properties |-> NoProperties, proxy |-> <<>>,
     quiet |-> FALSE, style |-> <<>>, url |-> <<>>, userAgent |-> <<>>,
     completion |-> FALSE, version |-> FALSE]

Optional(v) == {<<>>, v}

\* The property names the --properties lists are made of.
ListedNames == {"title", "byline"}

PropertyLists ==
    {NoProperties}
    \cup {[given |-> TRUE, names |-> names] :
            names \in UNION {[1..k -> ListedNames] : k \in 0..MaxProps}}

\* Runs that vary what onLoadDOM reads.
RenderArgs ==
    {[DefaultArgs EXCEPT !.source = src, !.lowConfidence = lc, !.quiet = q,
                         !.json = j, !.properties = props, !.style = st,
                         !.insane = ins, !.output = out] :
        src \in {Dash, FileToken},
        lc \in {"", "keep", "force", "exit"},
        q \in BOOLEAN, j \in BOOLEAN, props \in PropertyLists,
        st \in Optional(<<"s", ".", "c", "s", "s">>), ins \in BOOLEAN,
        out \in Optional(<<"o", ".", "h">>)}

\* Runs that vary what the resolution of the source reads.
InputArgs ==
    {[DefaultArgs EXCEPT !.source = src, !.isUrl = u, !.isFile = f,
                         !.url = uo, !.base = b, !.quiet = q,
                         !.lowConfidence = lc, !.completion = m[1],
                         !.version = m[2]] :
        src \in {<<>>, Dash, FileToken, URLToken, BareSchemeToken},
        u \in BOOLEAN, f \in BOOLEAN, uo \in Optional(URLOptionValue),
        b \in Optional(BaseValue), q \in BOOLEAN,
        lc \in {"", "no-op", "keep", "sometimes"},
        m \in {<<FALSE, FALSE>>, <<TRUE, FALSE>>, <<FALSE, TRUE>>}}

\* Runs that vary what the fetch of a URL reads.
FetchArgs ==
    {[DefaultArgs EXCEPT !.source = src, !.proxy = p, !.insecure = k,
                         !.userAgent = ua] :
        src \in {FileToken, URLToken}, p \in Optional(<<"p", "0">>),
        k \in BOOLEAN, ua \in Optional(<<"u", "a">>)}

Environments ==
    {[https_proxy |-> a, HTTPS_PROXY |-> b, http_proxy |-> c, HTTP_PROXY |-> d] :
        a \in Optional(<<"p", "1">>), b \in Optional(<<"p", "2">>),
        c \in Optional(<<"p", "3">>), d \in Optional(<<"p", "4">>)}

Init ==
    /\ pc = "start"
    /\ \/ args \in RenderArgs /\ env = NoEnv /\ isTTY = FALSE
       \/ args \in InputArgs /\ env = NoEnv /\ isTTY \in BOOLEAN
       \/ args \in FetchArgs /\ env \in Environments /\ isTTY = FALSE
    /\ exitCode = 0
    /\ errored = FALSE
    /\ uncaught = FALSE
    /\ stderr = <<>>
    /\ stdout = <<>>
    /\ fileOpened = FALSE
    /\ fileData = <<>>
    /\ input = NoInput
    /\ documentURL = <<>>
    /\ proxy = <<>>
    /\ wantedProperties = NoProperties
    /\ loadCall = NoCall
    /\ dom = NoDom
    /\ loadError = NoError
    /\ parseCalls = 0

Next == Main \/ OnLoadDOM \/ OnLoadDOMError \/ StdinLoadFails

Spec == Init /\ [][Next]_vars

(***************************************************************************)
(* What the claims speak of.                                               *)
(***************************************************************************)
Exited == pc = "exited"

\* The chunks written to the output target: the --output file, else stdout.
Target == IF OpensFile(args) THEN fileData ELSE stdout

Count(seq, x) == Cardinality({i \in 1..Len(seq) : seq[i] = x})

\* The run loaded a document and onLoadDOM has run on it.
Handled == Exited /\ dom.loaded

HeuristicNegative == Handled /\ ~dom.readerable

\* The outer HTML of the document as loaded, sanitized unless --insane.
IsPassthroughOf(chunk, state) ==
    /\ chunk.kind = "outerHTML"
    /\ chunk.v.tag = (IF args.insane THEN "html" ELSE "sanitized-html")
    /\ chunk.v.chars = <<state>>

(***************************************************************************)
(* C1.  Exit policy: on every loaded document on which the heuristic is    *)
(* negative, when the policy is exit the run ends with exit code 65 and    *)
(* nothing is written to the output target (nor to the other stream, and   *)
(* the --output file is not even created), whatever --json, --properties   *)
(* and --style are.                                                        *)
(***************************************************************************)
C1_ExitPolicy ==
    (HeuristicNegative /\ args.lowConfidence = "exit")
        => /\ exitCode = 65
           /\ Target = <<>>
           /\ stdout = <<>> /\ fileData = <<>> /\ ~fileOpened
           /\ parseCalls = 0
           /\ ~uncaught

C1_Witness ==
    /\ HeuristicNegative /\ args.lowConfidence = "exit"
    /\ args.json /\ wantedProperties.given /\ args.style # <<>>
    /\ args.output # <<>>
    /\ exitCode = 65

(***************************************************************************)
(* C2.  Keep policy on a negative heuristic: extraction is never invoked;  *)
(* with --json or --properties the run fails with exit code 65 and nothing *)
(* written; otherwise the only output is the outer HTML of the document as *)
(* loaded, sanitized unless --insane, and the exit status is 0.            *)
(***************************************************************************)
C2_KeepOnNegative ==
    (HeuristicNegative /\ args.lowConfidence = "keep")
        => /\ parseCalls = 0
           /\ ~uncaught
           /\ IF args.json \/ args.properties.given
              THEN /\ exitCode = 65
                   /\ stdout = <<>> /\ fileData = <<>> /\ ~fileOpened
              ELSE /\ exitCode = 0
                   /\ Len(Target) = 1
                   /\ IsPassthroughOf(Target[1], "document")
                   /\ Len(stdout) + Len(fileData) = 1

C2_Witness ==
    /\ HeuristicNegative /\ args.lowConfidence = "keep"
    /\ ~args.json /\ ~args.properties.given /\ ~args.insane
    /\ Len(Target) = 1 /\ Target[1].v.tag = "sanitized-html"
    /\ exitCode = 0

ReachedInput ==
    /\ pc # "start"
    /\ ~UnknownMode(args) /\ ~args.completion /\ ~args.version

ClaimedSource ==
    IF args.source = <<>>
    THEN [NoInput EXCEPT !.inputIsFromStdin = TRUE]
    ELSE LET token == IF args.isUrl /\ ~HasScheme(args.source)
                      THEN HttpsPrefix \o args.source
                      ELSE args.source
         IN  IF ~args.isFile /\ HasScheme(token)
             THEN [NoInput EXCEPT !.inputURL = token]
             ELSE IF token = Dash
                  THEN [NoInput EXCEPT !.inputIsFromStdin = TRUE]
                  ELSE [NoInput EXCEPT !.inputFile = token]

C4_Claim ==
    ReachedInput
        => IF args.source = <<>> /\ isTTY
           THEN Exited /\ exitCode = 64 /\ input = NoInput
           ELSE input = ClaimedSource

(***************************************************************************)
(* C5.  Effective base URL, as claimed: the document is loaded with the    *)
(* --base option if given, else the URL itself for a URL source, else      *)
(* none, for every source form.                                            *)
(***************************************************************************)
C5_Claim ==
    dom.loaded
        => dom.base = (IF args.base # <<>> THEN args.base ELSE input.inputURL)

(***************************************************************************)
(* C5, amended.  A local file and standard input are loaded with the       *)
(* --base option (the deprecated --url, when given, replaces it), else     *)
(* with no base URL; a URL source is loaded with the URL itself, whether   *)
(* or not --base is given.                                                 *)
(***************************************************************************)
C5_BaseURL ==
    dom.loaded
        => IF input.inputURL # <<>>
           THEN dom.base = input.inputURL
           ELSE /\ args.url # <<>> => dom.base = args.url /\ dom.base = URLOptionValue
                /\ (args.url = <<>> /\ args.base # <<>>)
                      => dom.base = BaseValue
                /\ (args.url = <<>> /\ args.base = <<>>) => dom.base = <<>>

C5_Witness ==
    /\ dom.loaded /\ input.inputURL # <<>>
    /\ args.url = <<>> /\ args.base = BaseValue
    /\ dom.base = input.inputURL /\ dom.base # args.base

(***************************************************************************)
(* C6.  Acquisition failures, as claimed: every failure of the load, for   *)
(* every source form, ends the run with a non-zero code of the table and   *)
(* never with 0 or an unclassified exception: missing file 66, permission  *)
(* denied 77, unresolvable host 68, HTTP error status 68, malformed source *)
(* URL 65; and nothing is written to the output target.                    *)
(***************************************************************************)
C6_Claim ==
    (Exited /\ loadError # NoError)
        => /\ exitCode \in {64, 65, 66, 68, 77}
           /\ ~uncaught
           /\ loadError.code = "ENOENT" => exitCode = 66
           /\ loadError.code = "EACCES" => exitCode = 77
           /\ loadError.innerCode = "ENOTFOUND" => exitCode = 68
           /\ loadError.statusCode # 0 => exitCode = 68
           /\ (loadError.isTypeError /\ input.inputURL # <<>>) => exitCode = 65
           /\ stdout = <<>> /\ fileData = <<>>

(***************************************************************************)
(* C7.  Warnings, as claimed: every warning (missing base URL, deprecated  *)
(* no-op, --is-url, --url) goes to the diagnostic stream only, is not      *)
(* emitted at all under --quiet, and never changes the exit status: a run  *)
(* whose only diagnostics are warnings exits with 0.                       *)
(***************************************************************************)
Warnings ==
    {RelativeLinkWarning,
     "Note: no-op option is deprecated, please use 'keep' instead.",
     "Note: --is-url option is deprecated.",
     "Note: --url option is deprecated, please use --base instead."}

\* The progress notes, which are no failure either.
ProgressNotes ==
    {"Reading...", "Retrieving...", "Processing...",
     "Not sure if this document should be processed. Not processing"}

C7_Claim ==
    /\ args.quiet => \A i \in 1..Len(stderr) : stderr[i] \notin Warnings
    /\ (Exited /\ \A i \in 1..Len(stderr) : stderr[i] \in Warnings \cup ProgressNotes)
          => exitCode = 0

(***************************************************************************)
(* C8.  Missing-base warning, as claimed: on every run that reads standard *)
(* input or a local file with no base URL known and quiet off, the warning *)
(* is emitted exactly once, before any write to the output target, and the *)
(* run goes on; it is never emitted with a base URL known or quiet on.     *)
(***************************************************************************)
Started == loadCall.api # "none"

C8_Claim ==
    Started
        => IF /\ loadCall.api \in {"new JSDOM", "fromFile"}
              /\ documentURL = <<>> /\ ~args.quiet
           THEN Count(stderr, RelativeLinkWarning) = 1
           ELSE Count(stderr, RelativeLinkWarning) = 0

(***************************************************************************)
(* C8, amended.  On every run that reads standard input with no base URL   *)
(* known (neither --base nor --url) and quiet off, the warning is emitted  *)
(* exactly once, before any write to the output target, and the run goes   *)
(* on to load the document; it is never emitted with a base URL known,     *)
(* with quiet on, or for a local file or a URL.                            *)
(***************************************************************************)
C8_MissingBaseWarning ==
    /\ pc = "start" => Count(stderr, RelativeLinkWarning) = 0
    /\ Started
        => IF /\ loadCall.api = "new JSDOM"
              /\ args.base = <<>> /\ args.url = <<>> /\ ~args.quiet
           THEN /\ Count(stderr, RelativeLinkWarning) = 1
                /\ pc = "loading" => stdout = <<>> /\ fileData = <<>>
           ELSE Count(stderr, RelativeLinkWarning) = 0
    /\ (~Started /\ Exited) => Count(stderr, RelativeLinkWarning) = 0

C8_Witness ==
    /\ Handled /\ loadCall.api = "new JSDOM" /\ documentURL = <<>>
    /\ ~args.quiet /\ Count(stderr, RelativeLinkWarning) = 1
    /\ Target # <<>>

(***************************************************************************)
(* C9.  Absent byline, as claimed: for every extracted article without a   *)
(* byline, in every output mode the run completes without failure, the     *)
(* byline line, field or block is not emitted at all, and every other      *)
(* requested property is emitted.                                          *)
(***************************************************************************)
AbsentByline ==
    /\ Handled /\ parseCalls = 1 /\ dom.article.found
    /\ dom.article.byline.tag \in {"null", "undefined"}

BylineEmitted(chunks) ==
    \E i \in 1..Len(chunks) :
        \/ chunks[i].kind \in {"credits", "byline-paragraph"}
        \/ chunks[i].kind = "line" /\ chunks[i].fields = <<"byline">>
        \/ /\ chunks[i].kind = "json"
           /\ \E j \in 1..Len(chunks[i].fields) : chunks[i].fields[j].name = "byline"

RequestedNames ==
    IF wantedProperties.given
    THEN {wantedProperties.names[k] : k \in 1..Len(wantedProperties.names)}
    ELSE {PropertyNames[k] : k \in 1..Len(PropertyNames)}

OthersEmitted(chunks) ==
    IF args.json
    THEN /\ Len(chunks) = 1 /\ chunks[1].kind = "json"
         /\ \A name \in RequestedNames \ {"byline"} :
                \E j \in 1..Len(chunks[1].fields) : chunks[1].fields[j].name = name
    ELSE IF wantedProperties.given
    THEN \A name \in RequestedNames \ {"byline"} :
            \E i \in 1..Len(chunks) :
                chunks[i].kind = "line" /\ chunks[i].fields = <<name>>
    ELSE /\ \E i \in 1..Len(chunks) : chunks[i].kind = "content"
         /\ \E i \in 1..Len(chunks) : chunks[i].kind \in {"reader-title", "html-title"}

C9_Claim ==
    AbsentByline
        => /\ ~uncaught
           /\ exitCode = 0
           /\ ~BylineEmitted(Target)
           /\ OthersEmitted(Target)

(***************************************************************************)
(* C10.  Proxy fallback, as claimed: the proxy of a URL fetch is --proxy   *)
(* when given, otherwise the value of HTTPS_PROXY, https_proxy or          *)
(* HTTP_PROXY when one of them is set; with only HTTP_PROXY set and no     *)
(* --proxy, the fetch uses the value of HTTP_PROXY.                        *)
(***************************************************************************)
Fetching == loadCall.api = "fromURL"

UsedProxy == loadCall.resources.proxy

C10_Claim ==
    Fetching
        => /\ args.proxy # <<>> => UsedProxy = args.proxy
           /\ (/\ args.proxy = <<>>
               /\ <<env.HTTPS_PROXY, env.https_proxy, env.HTTP_PROXY>> # <<<<>>, <<>>, <<>>>>)
                 => /\ UsedProxy # <<>>
                    /\ UsedProxy \in {env.HTTPS_PROXY, env.https_proxy, env.HTTP_PROXY}
           /\ (/\ args.proxy = <<>>
               /\ <<env.HTTPS_PROXY, env.https_proxy, env.http_proxy>> = <<<<>>, <<>>, <<>>>>
               /\ env.HTTP_PROXY # <<>>)
                 => UsedProxy = env.HTTP_PROXY

(***************************************************************************)
(* C10, amended.  The proxy of a URL fetch is --proxy when given, and      *)
(* otherwise the first that is set of the environment variables            *)
(* https_proxy, HTTPS_PROXY and http_proxy (lower case), in this order;    *)
(* with none of the three set the fetch uses no proxy, also when           *)
(* HTTP_PROXY (upper case) is set.                                         *)
(***************************************************************************)
C10_ProxyFallback ==
    Fetching
        => /\ args.proxy # <<>> => UsedProxy = args.proxy
           /\ (args.proxy = <<>> /\ env.https_proxy # <<>>)
                 => UsedProxy = env.https_proxy
           /\ (args.proxy = <<>> /\ env.https_proxy = <<>> /\ env.HTTPS_PROXY # <<>>)
                 => UsedProxy = env.HTTPS_PROXY
           /\ (/\ args.proxy = <<>> /\ env.https_proxy = <<>>
               /\ env.HTTPS_PROXY = <<>> /\ env.http_proxy # <<>>)
                 => UsedProxy = env.http_proxy
           /\ (/\ args.proxy = <<>> /\ env.https_proxy = <<>>
               /\ env.HTTPS_PROXY = <<>> /\ env.http_proxy = <<>>)
                 => UsedProxy = <<>>

C10_Witness ==
    /\ Fetching /\ args.proxy = <<>>
    /\ env.https_proxy = <<>> /\ env.HTTPS_PROXY = <<>>
    /\ env.http_proxy # <<>> /\ env.HTTP_PROXY # <<>>
    /\ UsedProxy = env.http_proxy
    /\ dom.loaded

(***************************************************************************)
(* C11.  Passthrough after a failed extraction, as claimed: on every run   *)
(* where extraction is attempted, yields no article and the policy is      *)
(* keep, the bytes written are those a passthrough of the document as      *)
(* loaded would write; extraction runs at most once and what it does to    *)
(* the document is never seen in the output.  The code serializes the      *)
(* document parse() has worked on.                                         *)
(***************************************************************************)
KeptAfterNoArticle ==
    /\ Handled /\ parseCalls >= 1 /\ ~dom.article.found
    /\ args.lowConfidence = "keep"

C11_Claim ==
    KeptAfterNoArticle
        => /\ parseCalls = 1
           /\ Len(Target) = 1
           /\ IsPassthroughOf(Target[1], "document")
====
